---- MODULE Spec2Model ----
(***************************************************************************)
(* Model of vip/calib/rescaling.py: frame and cube resampling, radial      *)
(* rescaling, the pad/rescale/crop scaler and the scale-vector normaliser. *)
(*                                                                         *)
(* Every function of the module is a call that runs to completion, so the  *)
(* state is the last call: its arguments (inp), the values of its locals   *)
(* when it returned or raised (loc) and what the caller sees afterwards    *)
(* (out); between calls the caller is idle and nothing of a call is kept.  *)
(* Interpolated pixel values are produced by cv2 / scipy and are   *)
(* not modelled; array shapes, the padding (with pixel contents), the      *)
(* reference point, the scale vectors and the raised errors are.           *)
(*                                                                         *)
(* Numbers.  Scale factors are the dyadic rationals k/Unit, for which the  *)
(* float products and ceilings of the code are exact.  A quotient is kept  *)
(* as the exact fraction <<num, den>>; IEEE division is correctly rounded  *)
(* and monotone, so x/m >= 1 and x/m = 1 are decided by the fraction.      *)
(* Pixel coordinates (centres, reference points) are in half pixels.       *)
(***************************************************************************)
EXTENDS Integers, Sequences, FiniteSets, TLC

VARIABLES py, op, inp, loc, out

vars == <<py, op, inp, loc, out>>

\* ------------------------------------------------------------------ bounds
\* scale factors are k/Unit
Unit == 4
\* largest scale factor is MaxScale/Unit
MaxScale == 8
\* longest scale vector given to check_scal_vector
MaxLen == 3
\* most frames in a cube
MaxN == 2
\* largest frame side
MaxDim == 3
\* largest reference coordinate a caller supplies, in half pixels
MaxRef == 2

ScaleVals == 2..MaxScale
Dims == 1..MaxDim
\* the file mixes Python 2 names (xrange) and Python 3 methods (list.copy)
PyVersions == {2, 3}
InterpNames == {"bilinear", "bicubic", "nearneig", "lanczos"}
MethodNames == {"geometric_transform", "cv2.warp_affine", "spline"}
VecKinds == {"list", "ndarray", "tuple"}

\* ----------------------------------------------------------------- numbers
RECURSIVE SeqMin(_)
SeqMin(s) ==
  IF Len(s) = 1 THEN s[1]
  ELSE LET m == SeqMin(Tail(s)) IN IF s[1] < m THEN s[1] ELSE m

RECURSIVE SeqMax(_)
SeqMax(s) ==
  IF Len(s) = 1 THEN s[1]
  ELSE LET m == SeqMax(Tail(s)) IN IF s[1] > m THEN s[1] ELSE m

Max2(a, b) == IF a > b THEN a ELSE b

\* np.ceil of num/den, num >= 0
Ceil(num, den) == (num + den - 1) \div den

\* int() of num/den, num >= 0: truncation
Trunc(num, den) == num \div den

\* cvRound of num/den: nearest integer, ties to the even one
CvRound(num, den) ==
  LET f == num \div den
      r2 == 2 * (num % den)
  IN IF r2 < den THEN f
     ELSE IF r2 > den THEN f + 1
     ELSE IF f % 2 = 0 THEN f ELSE f + 1

\* ------------------------------------------------------------------ arrays
\* An array is [shape, data]: data maps each index tuple to a pixel value.
Indices(shape) ==
  IF Len(shape) = 2 THEN {<<r, c>> : r \in 1..shape[1], c \in 1..shape[2]}
  ELSE {<<i, r, c>> : i \in 1..shape[1], r \in 1..shape[2], c \in 1..shape[3]}

\* test pattern: every pixel non-zero and distinct
Pix(seed, idx) ==
  IF Len(idx) = 2 THEN seed + 10 * idx[1] + idx[2]
  ELSE seed + 100 * idx[1] + 10 * idx[2] + idx[3]

MkArray(shape, seed) ==
  [shape |-> shape, data |-> [idx \in Indices(shape) |-> Pix(seed, idx)]]

NoArray == [shape |-> <<>>, data |-> <<>>]

Frames == {MkArray(<<y, x>>, 1) : y \in Dims, x \in Dims}
Cubes == {MkArray(<<n, y, x>>, 1) : n \in 0..MaxN, y \in Dims, x \in Dims}

\* array[i] of a cube
FrameOf(cube, i) ==
  [shape |-> <<cube.shape[2], cube.shape[3]>>,
   data |-> [idx \in Indices(<<cube.shape[2], cube.shape[3]>>) |->
               cube.data[<<i, idx[1], idx[2]>>]]]

\* numpy assignment dst[i] = src: src must broadcast to the slot's shape
Broadcastable(src, dst) ==
  /\ Len(src) = Len(dst)
  /\ \A k \in 1..Len(dst) : src[k] = dst[k] \/ src[k] = 1

\* --------------------------------------------------------- records of a call
NoRef == [set |-> FALSE, v |-> 0]
Ref(v) == [set |-> TRUE, v |-> v]

NoInp ==
  [array |-> NoArray, vec |-> <<>>, vecKind |-> "ndarray", scale |-> Unit,
   name |-> "", ref_y |-> NoRef, ref_x |-> NoRef, inverse |-> FALSE,
   full_output |-> TRUE, y_in |-> 1, x_in |-> 1]

NoLoc ==
  [padded |-> FALSE, new_y |-> 0, new_x |-> 0, pad_len_y |-> 0, pad_len_x |-> 0,
   big |-> NoArray, ref_y |-> NoRef, ref_x |-> NoRef, var_list |-> <<>>,
   correct |-> FALSE]

\* what the caller holds after the call: the outcome ("ok" or the exception),
\* the shape of the returned array, the returned vector, whether the returned
\* object is the caller's own argument, and the caller's vector afterwards
NoOut ==
  [outcome |-> "ok", shape |-> <<>>, median |-> <<>>, vec |-> <<>>,
   alias |-> FALSE, vecAfter |-> <<>>, y |-> 0, x |-> 0, cy |-> 0, cx |-> 0]

Raise(e) == [NoOut EXCEPT !.outcome = e]

\* a vector of scale factors k/Unit as fractions
Frac(vec) == [k \in 1..Len(vec) |-> <<vec[k], Unit>>]

\* ------------------------------------------------------ frame_px_resampling
\* cv2.resize(array, (0,0), fx=scale, fy=scale): each side is cvRound(side*scale),
\* and an empty destination is an error
cv2_resize(shape, scale) ==
  LET ny == CvRound(shape[1] * scale, Unit)
      nx == CvRound(shape[2] * scale, Unit)
  IN IF ny = 0 \/ nx = 0 THEN Raise("cv2.error")
     ELSE [NoOut EXCEPT !.shape = <<ny, nx>>]

InterpKnown(interpolation) == interpolation \in {"bilinear", "bicubic", "nearneig"}

frame_px_resampling(array, scale, interpolation) ==
  IF Len(array.shape) # 2 THEN Raise("TypeError")
  ELSE IF ~InterpKnown(interpolation) THEN Raise("TypeError")
  ELSE cv2_resize(array.shape, scale)

\* ------------------------------------------------------- cube_px_resampling
\* np.zeros((n, int(y*scale), int(x*scale)))
AllocShape(shape, scale) ==
  <<shape[1], Trunc(shape[2] * scale, Unit), Trunc(shape[3] * scale, Unit)>>

\* the loop body for frame i: the frame call, then the assignment into slot i
ResampleInto(array, i, scale, interpolation, slot) ==
  LET f == frame_px_resampling(FrameOf(array, i), scale, interpolation)
  IN IF f.outcome # "ok" THEN f.outcome
     ELSE IF ~Broadcastable(f.shape, slot) THEN "ValueError"
     ELSE "ok"

cube_px_resampling(array, scale, interpolation) ==
  IF Len(array.shape) # 3 THEN Raise("TypeError")
  ELSE
    LET alloc == AllocShape(array.shape, scale)
        slot == <<alloc[2], alloc[3]>>
        bad == {i \in 1..array.shape[1] :
                  ResampleInto(array, i, scale, interpolation, slot) # "ok"}
    IN IF bad # {}
       THEN Raise(ResampleInto(array, CHOOSE i \in bad : \A j \in bad : i <= j,
                               scale, interpolation, slot))
       ELSE [NoOut EXCEPT !.shape = alloc]

\* -------------------------------------------------------- check_scal_vector
\* list.copy() exists from Python 3.3 on
ListCopyOk(v) == v = 3

\* slip: np.amax in place of np.amin
scal_min_amax(vec) == SeqMax(vec)

\* np.amin(scal_vec)
scal_min(vec) == SeqMin(vec)

\* slip: the list branch does not set the flag
correct_min_only(kind, vec) == scal_min(vec) < Unit

\* the flag `correct` at line 336
correct(kind, vec) == kind = "list" \/ scal_min(vec) < Unit

\* scal_vec[ii] = scal_vec[ii]/scal_min for every ii
Normalized(vec) == [k \in 1..Len(vec) |-> <<vec[k], scal_min(vec)>>]

check_scal_vector(v, kind, vec) ==
  IF kind \notin {"list", "ndarray"} THEN Raise("TypeError")
  ELSE IF kind = "list" /\ ~ListCopyOk(v) THEN Raise("AttributeError")
  ELSE IF Len(vec) = 0 THEN Raise("ValueError")
  ELSE
    LET res == IF correct(kind, vec) THEN Normalized(vec) ELSE Frac(vec)
    IN [NoOut EXCEPT !.vec = res,
                     !.alias = (kind = "ndarray"),
                     !.vecAfter = IF kind = "ndarray" THEN res ELSE Frac(vec)]

\* ---------------------------------------------------------- frame_rescaling
\* frame_center(array) of vip.var: the geometric centre ((y-1)/2, (x-1)/2),
\* the central pixel of an odd-sized frame; in half pixels
frame_center(shape) == <<shape[1] - 1, shape[2] - 1>>

\* Python truth value of a reference coordinate: None and 0 are both false
Falsy(r) == ~r.set \/ r.v = 0

\* `if not ref_y and not ref_x` at lines 235 and 289
RefUnset(ref_y, ref_x) == Falsy(ref_y) /\ Falsy(ref_x)

\* the reference point after the defaulting of line 235
RefUsed(shape, ref_y, ref_x) ==
  IF RefUnset(ref_y, ref_x)
  THEN <<Ref(frame_center(shape)[1]), Ref(frame_center(shape)[2])>>
  ELSE <<ref_y, ref_x>>

\* _scale_func on one axis: ref + (o - ref)/scaling with scaling = num/den,
\* as the fraction <<numerator, denominator>>
scale_func(o, ref, scaling) ==
  <<ref * scaling[1] + (o - ref) * scaling[2], scaling[1]>>

MethodKnown(method) == method \in {"geometric_transform", "cv2.warp_affine"}

frame_rescaling(array, ref_y, ref_x, scale, method) ==
  LET used == RefUsed(array.shape, ref_y, ref_x)
      l == [NoLoc EXCEPT !.ref_y = used[1], !.ref_x = used[2]]
  IN IF ~MethodKnown(method) THEN [out |-> Raise("ValueError"), loc |-> l]
     \* arithmetic on a coordinate that is still None
     ELSE IF ~used[1].set \/ ~used[2].set THEN [out |-> Raise("TypeError"), loc |-> l]
     ELSE [out |-> [NoOut EXCEPT !.shape = array.shape], loc |-> l]

\* ----------------------------------------------------------- cube_rescaling
\* the parameters frame_rescaling declares (lines 192-193)
FrameRescalingParams == {"array", "ref_y", "ref_x", "scale", "method"}

\* the keyword cube_rescaling passes the factor under (line 293)
FactorKeyword == "gamma"

\* xrange is a builtin of Python 2 only
XrangeOk(v) == v = 2

\* frame_rescaling(array[i], ref_y=.., ref_x=.., <kw>=factor, method=..)
CallFrameRescaling(frame, ref_y, ref_x, kw, factor, method) ==
  IF kw \notin FrameRescalingParams
  THEN [out |-> Raise("TypeError"), loc |-> NoLoc]
  ELSE frame_rescaling(frame, ref_y, ref_x,
                       IF kw = "scale" THEN factor ELSE <<Unit, Unit>>, method)

\* the loop body for frame i (lines 292-293)
RescaleInto(array, scaling_list, i, ref_y, ref_x, method) ==
  IF i > Len(scaling_list) THEN "IndexError"
  ELSE CallFrameRescaling(FrameOf(array, i), ref_y, ref_x, FactorKeyword,
                          scaling_list[i], method).out.outcome

cube_rescaling(v, array, scaling_list, ref_y, ref_x, method) ==
  IF Len(array.shape) # 3 THEN [out |-> Raise("TypeError"), loc |-> NoLoc]
  ELSE IF RefUnset(ref_y, ref_x) /\ array.shape[1] = 0
  THEN [out |-> Raise("IndexError"), loc |-> NoLoc]
  ELSE
    LET used == RefUsed(<<array.shape[2], array.shape[3]>>, ref_y, ref_x)
        l == [NoLoc EXCEPT !.ref_y = used[1], !.ref_x = used[2],
                           !.var_list = scaling_list]
        bad == {i \in 1..array.shape[1] :
                  RescaleInto(array, scaling_list, i, used[1], used[2], method) # "ok"}
    IN IF ~XrangeOk(v) THEN [out |-> Raise("NameError"), loc |-> l]
       ELSE IF bad # {}
       THEN [out |-> Raise(RescaleInto(array, scaling_list,
                                       CHOOSE i \in bad : \A j \in bad : i <= j,
                                       used[1], used[2], method)),
             loc |-> l]
       ELSE [out |-> [NoOut EXCEPT !.shape = array.shape,
                                   !.median = <<array.shape[2], array.shape[3]>>],
             loc |-> l]

\* --------------------------------------------------------------- scale_cube
\* np.pad(cube, ((0,0), (yb, ya), (xb, xa)), 'constant', constant_values=(0,))
np_pad(cube, yb, ya, xb, xa) ==
  LET shape == <<cube.shape[1], cube.shape[2] + yb + ya, cube.shape[3] + xb + xa>>
  IN [shape |-> shape,
      data |-> [idx \in Indices(shape) |->
                  IF /\ idx[2] > yb /\ idx[2] <= yb + cube.shape[2]
                     /\ idx[3] > xb /\ idx[3] <= xb + cube.shape[3]
                  THEN cube.data[<<idx[1], idx[2] - yb, idx[3] - xb>>]
                  ELSE 0]]

\* slip: pads on the inverse pass too
MustPad_any(inverse, max_sc) == max_sc > Unit

\* `not inverse and max_sc > 1` at line 151
MustPad(inverse, max_sc) == ~inverse /\ max_sc > Unit

\* slip: tests the parity of new instead of new - side
NewSide_even(max_sc, side) ==
  LET new == Ceil(max_sc * side, Unit)
  IN IF new % 2 # 0 THEN new + 1 ELSE new

\* lines 152-155 on one axis: np.ceil(max_sc*side), plus 1 when new - side is odd
NewSide(max_sc, side) ==
  LET new == Ceil(max_sc * side, Unit)
  IN IF (new - side) % 2 # 0 THEN new + 1 ELSE new

\* lines 156-157
PadLen(new, side) == (new - side) \div 2

\* lines 151-162: the working cube and the locals of the padding branch
BigCube(cube, inverse, max_sc) ==
  IF MustPad(inverse, max_sc)
  THEN LET new_y == NewSide(max_sc, cube.shape[2])
           new_x == NewSide(max_sc, cube.shape[3])
           pad_len_y == PadLen(new_y, cube.shape[2])
           pad_len_x == PadLen(new_x, cube.shape[3])
       IN [NoLoc EXCEPT !.padded = TRUE, !.new_y = new_y, !.new_x = new_x,
                        !.pad_len_y = pad_len_y, !.pad_len_x = pad_len_x,
                        !.big = np_pad(cube, pad_len_y, pad_len_y,
                                       pad_len_x, pad_len_x)]
  ELSE [NoLoc EXCEPT !.big = cube]

\* 1./scal_list[:] (line 169)
Reciprocal(vec) == [k \in 1..Len(vec) |-> <<Unit, vec[k]>>]

\* get_square_robust(frame, size, cy, cx, strict=False) of vip.var: the square of
\* side `size` about (cy, cx), clamped to the frame
get_square_robust(shape, size) ==
  <<IF size < shape[1] THEN size ELSE shape[1],
    IF size < shape[2] THEN size ELSE shape[2]>>

\* lines 175-188, once cube_rescaling has returned r for the working cube
CropAndReturn(r, l, full_output, inverse, max_sc, y_in, x_in, cy, cx) ==
  LET size == Max2(y_in, x_in)
      big == l.big.shape
      crop == inverse /\ max_sc > Unit
      square == get_square_robust(r.median, size)
      frame == IF crop THEN square ELSE r.median
      cube == IF crop /\ full_output THEN <<r.shape[1], size, size>> ELSE r.shape
  IN IF crop /\ full_output /\ r.shape[1] > 0 /\ ~Broadcastable(square, <<size, size>>)
     THEN Raise("ValueError")
     ELSE [NoOut EXCEPT !.shape = IF full_output THEN cube ELSE <<>>,
                        !.median = frame,
                        !.y = IF full_output THEN big[2] ELSE 0,
                        !.x = IF full_output THEN big[3] ELSE 0,
                        !.cy = IF full_output THEN cy ELSE 0,
                        !.cx = IF full_output THEN cx ELSE 0]

scale_cube(v, cube, kind, scal_list, full_output, inverse, y_in, x_in) ==
  IF Len(cube.shape) # 3 THEN [out |-> Raise("ValueError"), loc |-> NoLoc]
  ELSE IF Len(scal_list) = 0 THEN [out |-> Raise("ValueError"), loc |-> NoLoc]
  ELSE
    LET max_sc == SeqMax(scal_list)
        l0 == BigCube(cube, inverse, max_sc)
        big == l0.big
        c == IF inverse THEN frame_center(<<cube.shape[2], cube.shape[3]>>)
             ELSE frame_center(<<big.shape[2], big.shape[3]>>)
        var_list == IF inverse THEN Reciprocal(scal_list) ELSE Frac(scal_list)
        l == [l0 EXCEPT !.ref_y = Ref(c[1]), !.ref_x = Ref(c[2]),
                        !.var_list = var_list]
        r == cube_rescaling(v, big, var_list, Ref(c[1]), Ref(c[2]), "cv2.warp_affine")
    IN \* big_cube[0] of a cube without frames
       IF big.shape[1] = 0 THEN [out |-> Raise("IndexError"), loc |-> l0]
       \* 1./scal_list[:] on a list
       ELSE IF inverse /\ kind = "list" THEN [out |-> Raise("TypeError"), loc |-> l0]
       ELSE IF r.out.outcome # "ok" THEN [out |-> r.out, loc |-> l]
       ELSE [out |-> CropAndReturn(r.out, l, full_output, inverse, max_sc,
                                   y_in, x_in, c[1], c[2]),
             loc |-> l]

\* ------------------------------------------------------------------ actions
Vectors(lens) == UNION {[1..l -> ScaleVals] : l \in lens}

\* the scale vectors callers give for an array: one factor per frame of a cube
VecFor(a) == IF Len(a.shape) = 3 THEN Vectors({a.shape[1]}) ELSE Vectors({1})

Init ==
  /\ py \in PyVersions
  /\ op = "idle"
  /\ inp = NoInp
  /\ loc = NoLoc
  /\ out = NoOut

FramePxResampling ==
  /\ op = "idle"
  /\ \E a \in Frames \cup Cubes, s \in ScaleVals, i \in InterpNames :
    /\ op' = "frame_px_resampling"
    /\ inp' = [NoInp EXCEPT !.array = a, !.scale = s, !.name = i]
    /\ loc' = NoLoc
    /\ out' = frame_px_resampling(a, s, i)
    /\ UNCHANGED py

CubePxResampling ==
  /\ op = "idle"
  /\ \E a \in Frames \cup Cubes, s \in ScaleVals, i \in InterpNames :
    /\ op' = "cube_px_resampling"
    /\ inp' = [NoInp EXCEPT !.array = a, !.scale = s, !.name = i]
    /\ loc' = NoLoc
    /\ out' = cube_px_resampling(a, s, i)
    /\ UNCHANGED py

CheckScalVector ==
  /\ op = "idle"
  /\ \E k \in VecKinds, v \in Vectors(0..MaxLen) :
    /\ op' = "check_scal_vector"
    /\ inp' = [NoInp EXCEPT !.vec = v, !.vecKind = k]
    /\ loc' = [NoLoc EXCEPT !.correct = (Len(v) > 0 /\ correct(k, v))]
    /\ out' = check_scal_vector(py, k, v)
    /\ UNCHANGED py

RefVals == {NoRef} \cup {Ref(v) : v \in 0..MaxRef}

FrameRescaling ==
  /\ op = "idle"
  /\ \E a \in Frames, ry \in RefVals, rx \in RefVals, s \in ScaleVals, m \in MethodNames :
    LET r == frame_rescaling(a, ry, rx, <<s, Unit>>, m)
    IN /\ op' = "frame_rescaling"
       /\ inp' = [NoInp EXCEPT !.array = a, !.ref_y = ry, !.ref_x = rx,
                               !.scale = s, !.name = m]
       /\ loc' = r.loc
       /\ out' = r.out
       /\ UNCHANGED py

CubeRescaling ==
  /\ op = "idle"
  /\ \E a \in Frames \cup Cubes, ry \in RefVals, rx \in RefVals,
     m \in {"geometric_transform", "cv2.warp_affine"} :
    \E vec \in VecFor(a) :
      LET r == cube_rescaling(py, a, Frac(vec), ry, rx, m)
      IN /\ op' = "cube_rescaling"
         /\ inp' = [NoInp EXCEPT !.array = a, !.ref_y = ry, !.ref_x = rx,
                                 !.vec = vec, !.name = m]
         /\ loc' = r.loc
         /\ out' = r.out
         /\ UNCHANGED py

\* y_in, x_in: the defaults, or the sizes of a frame before it was scaled
SizesIn == {<<1, 1>>} \cup {<<MaxDim - 1, MaxDim>>}

ScaleCube ==
  /\ op = "idle"
  /\ \E a \in Frames \cup Cubes, k \in {"list", "ndarray"}, inverse \in BOOLEAN,
        full_output \in BOOLEAN, sz \in SizesIn :
       \E vec \in VecFor(a) \cup {<<>>} :
         LET r == scale_cube(py, a, k, vec, full_output, inverse, sz[1], sz[2])
         IN /\ op' = "scale_cube"
            /\ inp' = [NoInp EXCEPT !.array = a, !.vec = vec, !.vecKind = k,
                                    !.inverse = inverse, !.full_output = full_output,
                                    !.y_in = sz[1], !.x_in = sz[2]]
            /\ loc' = r.loc
            /\ out' = r.out
            /\ UNCHANGED py

\* the round trip of a caller: scale, then descale what came back to the
\* original frame size
RoundTrip ==
  /\ op = "idle"
  /\ \E a \in Cubes, k \in {"list", "ndarray"} :
       \E vec \in VecFor(a) :
         LET f == scale_cube(py, a, k, vec, TRUE, FALSE, 1, 1)
             b == scale_cube(py, MkArray(f.out.shape, 2), k, vec, TRUE, TRUE,
                             a.shape[2], a.shape[3])
             r == IF f.out.outcome # "ok" THEN f ELSE b
         IN /\ op' = "round_trip"
            /\ inp' = [NoInp EXCEPT !.array = a, !.vec = vec, !.vecKind = k,
                                    !.y_in = a.shape[2], !.x_in = a.shape[3]]
            /\ loc' = r.loc
            /\ out' = r.out
            /\ UNCHANGED py

\* the call is over: nothing of it outlives it
Return ==
  /\ op # "idle"
  /\ op' = "idle"
  /\ inp' = NoInp
  /\ loc' = NoLoc
  /\ out' = NoOut
  /\ UNCHANGED py

Next ==
  \/ FramePxResampling
  \/ CubePxResampling
  \/ CheckScalVector
  \/ FrameRescaling
  \/ CubeRescaling
  \/ ScaleCube
  \/ RoundTrip
  \/ Return

Spec == Init /\ [][Next]_vars

\* ------------------------------------------------------------------- claims
FracEq(a, b) == a[1] * b[2] = b[1] * a[2]
Is3D(a) == Len(a.shape) = 3
Returned == out.outcome = "ok"

\* C1: check_scal_vector on positive entries returns only entries >= 1, and
\* when the division is applied (minimum < 1, or a list) the minimum of the
\* returned vector is exactly 1.
Thm_C1 ==
  (op = "check_scal_vector" /\ Returned) =>
    /\ Len(out.vec) = Len(inp.vec)
    /\ \A k \in 1..Len(out.vec) : out.vec[k][1] >= out.vec[k][2]
    /\ (SeqMin(inp.vec) < Unit \/ inp.vecKind = "list") =>
         \E k \in 1..Len(out.vec) : out.vec[k][1] = out.vec[k][2]

\* an ndarray with minimum < 1 and a larger entry was normalised
Wit_C1 ==
  /\ op = "check_scal_vector" /\ Returned
  /\ inp.vecKind = "ndarray"
  /\ Len(inp.vec) >= 2
  /\ SeqMin(inp.vec) < Unit
  /\ SeqMax(inp.vec) > SeqMin(inp.vec)

\* C2: scale_cube forward then inverse (y_in = y, x_in = x) completes without
\* error and returns a cube of the original shape (n, y, x).
Cex_C2 ==
  (op = "round_trip" /\ inp.array.shape[1] >= 1) =>
    /\ Returned
    /\ out.shape = inp.array.shape

\* C3: cube_rescaling on a cube of n >= 1 frames with n factors completes
\* without error and returns a rescaled cube of the input's shape and its
\* pixel-wise median frame.
Cex_C3 ==
  (/\ op = "cube_rescaling" /\ Is3D(inp.array)
   /\ inp.array.shape[1] >= 1
   /\ Len(inp.vec) = inp.array.shape[1]
   /\ inp.ref_y.set = inp.ref_x.set) =>
    /\ Returned
    /\ out.shape = inp.array.shape
    /\ out.median = <<inp.array.shape[2], inp.array.shape[3]>>

\* C4: cube_px_resampling on a cube (n, y, x) with a known interpolation
\* succeeds and returns a cube (n, round(y*s), round(x*s)), the frame size
\* frame_px_resampling produces for that scale.
Cex_C4 ==
  (/\ op = "cube_px_resampling" /\ Is3D(inp.array)
   /\ inp.array.shape[1] >= 1
   /\ InterpKnown(inp.name)
   /\ frame_px_resampling(FrameOf(inp.array, 1), inp.scale, inp.name).outcome = "ok") =>
    /\ Returned
    /\ out.shape =
         <<inp.array.shape[1]>> \o
         frame_px_resampling(FrameOf(inp.array, 1), inp.scale, inp.name).shape

\* C5: every invalid input (wrong rank, unknown interpolation or method name,
\* unsupported container) yields an error and never a returned result.
InvalidInput ==
  \/ op = "frame_px_resampling" /\ (Len(inp.array.shape) # 2 \/ ~InterpKnown(inp.name))
  \/ op = "cube_px_resampling" /\ (~Is3D(inp.array) \/ ~InterpKnown(inp.name))
  \/ op = "frame_rescaling" /\ ~MethodKnown(inp.name)
  \/ op = "cube_rescaling" /\ ~Is3D(inp.array)
  \/ op = "check_scal_vector" /\ inp.vecKind \notin {"list", "ndarray"}

Cex_C5 == InvalidInput => ~Returned

\* C6: no call changes its inputs or returns one of them: after
\* check_scal_vector the caller's vector holds the values it held before, and
\* the returned vector is a new object.
Cex_C6 ==
  (op = "check_scal_vector" /\ Returned) =>
    /\ ~out.alias
    /\ \A k \in 1..Len(inp.vec) : FracEq(out.vecAfter[k], <<inp.vec[k], Unit>>)

\* C7: a list is always returned divided by its minimum, whatever the
\* minimum; an ndarray is divided by its minimum only when that is < 1 and is
\* otherwise returned with its values unchanged.
Thm_C7 ==
  (op = "check_scal_vector" /\ Returned) =>
    /\ Len(out.vec) = Len(inp.vec)
    /\ \A k \in 1..Len(inp.vec) :
         IF inp.vecKind = "list" \/ SeqMin(inp.vec) < Unit
         THEN FracEq(out.vec[k], <<inp.vec[k], SeqMin(inp.vec)>>)
         ELSE FracEq(out.vec[k], <<inp.vec[k], Unit>>)

\* a list whose minimum is > 1 was returned, divided
Wit_C7 ==
  /\ op = "check_scal_vector" /\ Returned
  /\ inp.vecKind = "list"
  /\ SeqMin(inp.vec) > Unit
  /\ \E k \in 1..Len(inp.vec) : ~FracEq(out.vec[k], <<inp.vec[k], Unit>>)

\* the forward pass of scale_cube took the padding branch
Padding ==
  /\ op = "scale_cube" /\ Is3D(inp.array)
  /\ Len(inp.vec) > 0
  /\ ~inp.inverse
  /\ SeqMax(inp.vec) > Unit

EvenUp(k) == k + (k % 2)

\* C8 as stated: the padded dimensions are ceil(max_sc*y) and ceil(max_sc*x),
\* each rounded up to the nearest even number, so both are even.
Cex_C8 ==
  Padding =>
    /\ loc.big.shape[2] = EvenUp(Ceil(SeqMax(inp.vec) * inp.array.shape[2], Unit))
    /\ loc.big.shape[3] = EvenUp(Ceil(SeqMax(inp.vec) * inp.array.shape[3], Unit))
    /\ loc.big.shape[2] % 2 = 0
    /\ loc.big.shape[3] % 2 = 0

\* C8 amended: the padded dimensions are ceil(max_sc*y) and ceil(max_sc*x),
\* each increased by 1 when its difference from the input dimension is odd, so
\* each padded dimension has the parity of the input dimension.
Thm_C8 ==
  Padding =>
    LET cy == Ceil(SeqMax(inp.vec) * inp.array.shape[2], Unit)
        cx == Ceil(SeqMax(inp.vec) * inp.array.shape[3], Unit)
    IN /\ loc.big.shape[2] = cy + ((cy - inp.array.shape[2]) % 2)
       /\ loc.big.shape[3] = cx + ((cx - inp.array.shape[3]) % 2)
       /\ (loc.big.shape[2] - inp.array.shape[2]) % 2 = 0
       /\ (loc.big.shape[3] - inp.array.shape[3]) % 2 = 0
       /\ (Returned /\ inp.full_output) =>
            out.y = loc.big.shape[2] /\ out.x = loc.big.shape[3]

\* an odd-sized frame was padded to an odd size, 1 above an even ceiling
Wit_C8 ==
  /\ Padding
  /\ inp.array.shape[2] % 2 = 1
  /\ Ceil(SeqMax(inp.vec) * inp.array.shape[2], Unit) % 2 = 0
  /\ loc.big.shape[2] % 2 = 1

\* C9: when padding applies, the same number of zero rows is added before and
\* after axis 1 and of zero columns before and after axis 2, the padded
\* dimensions are >= ceil(max_sc*y) and ceil(max_sc*x), and the original
\* values are the central block; otherwise the working cube is the input.
CentralBlock(big, cube, p, q) ==
  /\ big.shape = <<cube.shape[1], cube.shape[2] + 2 * p, cube.shape[3] + 2 * q>>
  /\ \A idx \in Indices(big.shape) :
       big.data[idx] =
         IF /\ idx[2] > p /\ idx[2] <= p + cube.shape[2]
            /\ idx[3] > q /\ idx[3] <= q + cube.shape[3]
         THEN cube.data[<<idx[1], idx[2] - p, idx[3] - q>>]
         ELSE 0

Thm_C9 ==
  (op = "scale_cube" /\ Is3D(inp.array) /\ Len(inp.vec) > 0) =>
    IF Padding
    THEN /\ \E p \in 0..(MaxScale * MaxDim), q \in 0..(MaxScale * MaxDim) :
              CentralBlock(loc.big, inp.array, p, q)
         /\ loc.big.shape[2] >= Ceil(SeqMax(inp.vec) * inp.array.shape[2], Unit)
         /\ loc.big.shape[3] >= Ceil(SeqMax(inp.vec) * inp.array.shape[3], Unit)
    ELSE loc.big = inp.array

\* a cube with frames got zero rows and zero columns on every side
Wit_C9 ==
  /\ Padding
  /\ inp.array.shape[1] >= 1
  /\ loc.big.shape[2] > inp.array.shape[2]
  /\ loc.big.shape[3] > inp.array.shape[3]
  /\ loc.big.data[<<1, 1, 1>>] = 0
  /\ loc.big.data[<<1, loc.big.shape[2], loc.big.shape[3]>>] = 0

\* C10: the centre is the fixed point exactly when no reference point is
\* supplied; every supplied reference point, (0, 0) included, is used
\* unchanged, so the output pixel at the reference maps to the source
\* coordinate at the reference.
Cex_C10 ==
  (/\ op = "frame_rescaling" /\ MethodKnown(inp.name)
   /\ inp.ref_y.set /\ inp.ref_x.set) =>
    /\ loc.ref_y = inp.ref_y
    /\ loc.ref_x = inp.ref_x
    /\ FracEq(scale_func(inp.ref_y.v, loc.ref_y.v, <<inp.scale, Unit>>),
              <<inp.ref_y.v, 1>>)
    /\ FracEq(scale_func(inp.ref_x.v, loc.ref_x.v, <<inp.scale, Unit>>),
              <<inp.ref_x.v, 1>>)

====
